---- MODULE Spec2Model ----
(***************************************************************************)
(* Model of the simulation engine of blackjack_simulation.py:              *)
(* simulate_single_run, get_true_count, card_values and the template shoe  *)
(* `cards`.  One behaviour is one call of simulate_single_run under one    *)
(* configuration; every control point of the loop body is a step.          *)
(*                                                                         *)
(* Representation choices                                                  *)
(*  - `deck` is a shuffled list that is only ever popped and measured, so  *)
(*    it is kept as a multiset (rank -> number of cards left); the random  *)
(*    permutation makes deck.pop() a free choice among the cards left.     *)
(*  - Money is counted in 1/Unit dollars.  A win adds bet * 1.5, which can *)
(*    halve the granularity once per round, so Unit = 2^MaxHands keeps     *)
(*    every amount of a run an exact integer (the doubles of the program   *)
(*    are exact on these dyadic values as well).                           *)
(*  - true_count is the exact quotient, kept as a fraction num/den with    *)
(*    den > 0.  Within the bounds below the double the program computes    *)
(*    compares with 1 and truncates exactly like this quotient.            *)
(*  - np.random.choice gives every outcome a probability in (0, 1), so the *)
(*    outcome is a free choice among win, lose and push.                   *)
(***************************************************************************)
EXTENDS Integers, Sequences, FiniteSets, TLC

\* ---- bounds of the model ----
MaxHands == 4
MaxDecks == 2
\* the batch of runs: number of runs and hands per run
MaxSims == 2
MaxBatchHands == 3
\* the true counts handed to the odds computation: |running_count| and the
\* number of cards left in the shoe
MaxCount == 8
MaxLeft == 60

\* ---- money representation ----
RECURSIVE Pow2(_)
Pow2(n) == IF n = 0 THEN 1 ELSE 2 * Pow2(n - 1)

Unit == Pow2(MaxHands)

\* ---- configuration (the sidebar parameters) ----
InitialBankrollDollars == 1000
MinBetDollars == 400
BatchMinBetDollars == 500
Spreads == {1, 2}
NumHandsChoices == 1..MaxHands
NumDecksChoices == 1..MaxDecks

\* ---- Hi-Lo card values and the template shoe ----
RankSeq == <<"2", "3", "4", "5", "6", "7", "8", "9", "10", "J", "Q", "K", "A">>

Ranks == {RankSeq[k] : k \in 1..Len(RankSeq)}

card_values_ace_neutral ==
    [r \in Ranks |->
        IF r \in {"2", "3", "4", "5", "6"} THEN 1
        ELSE IF r \in {"7", "8", "9", "A"} THEN 0
        ELSE -1]

card_values_seven_low ==
    [r \in Ranks |->
        IF r \in {"2", "3", "4", "5", "6", "7"} THEN 1
        ELSE IF r \in {"8", "9"} THEN 0
        ELSE -1]

card_values ==
    [r \in Ranks |->
        IF r \in {"2", "3", "4", "5", "6"} THEN 1
        ELSE IF r \in {"7", "8", "9"} THEN 0
        ELSE -1]

\* cards = list(card_values.keys()) * 4 * num_decks, as a multiset
cards(nd) == [r \in Ranks |-> 4 * nd]

\* ---- multiset helpers ----
RECURSIVE SizeUpTo(_, _)
SizeUpTo(d, k) == IF k = 0 THEN 0 ELSE d[RankSeq[k]] + SizeUpTo(d, k - 1)

\* len(deck)
DeckLen(d) == SizeUpTo(d, Len(RankSeq))

\* deck.pop() having returned card c
Pop(d, c) == [d EXCEPT ![c] = @ - 1]

\* ---- get_true_count ----
\* decks_remaining is len(deck) / 52, the fraction dr.num / dr.den
get_true_count_times(rc, dr) ==
    IF dr.num > 0 THEN [num |-> rc * dr.num, den |-> dr.den] ELSE [num |-> 0, den |-> 1]

get_true_count(rc, dr) ==
    IF dr.num > 0 THEN [num |-> rc * dr.den, den |-> dr.num] ELSE [num |-> 0, den |-> 1]

\* int(true_count): truncation toward zero
IntTrunc(tc) ==
    IF tc.num >= 0 THEN tc.num \div tc.den ELSE -((-tc.num) \div tc.den)

Min(a, b) == IF a <= b THEN a ELSE b

\* ---- the betting policy (bet = min_bet; if true_count > 1: bet *= ...; clamp) ----
BetSize_rounded_up(tc, roll, mb, spr) ==
    LET scaled == IF tc.num > tc.den
                  THEN mb * Min(spr, (tc.num + tc.den - 1) \div tc.den)
                  ELSE mb
    IN  Min(roll, scaled)

BetSize_unclamped(tc, roll, mb, spr) ==
    IF tc.num > tc.den THEN mb * Min(spr, IntTrunc(tc)) ELSE mb

BetSize_uncapped(tc, roll, mb, spr) ==
    LET scaled == IF tc.num > tc.den THEN mb * IntTrunc(tc) ELSE mb
    IN  Min(roll, scaled)

BetSize(tc, roll, mb, spr) ==
    LET scaled == IF tc.num > tc.den THEN mb * Min(spr, IntTrunc(tc)) ELSE mb
    IN  Min(roll, scaled)

\* ---- the payout of one round ----
Settle_even_money(roll, b, oc) ==
    IF oc = "win" THEN roll + b
    ELSE IF oc = "lose" THEN roll - b
    ELSE roll

Settle(roll, b, oc) ==
    IF oc = "win" THEN roll + (3 * b) \div 2
    ELSE IF oc = "lose" THEN roll - b
    ELSE roll

NeedsReshuffle_late(d) == DeckLen(d) < 51

NeedsReshuffle_never(d) == DeckLen(d) < 0

\* if len(deck) < 52
NeedsReshuffle(d) == DeckLen(d) < 52

Ruined_below_min_bet(roll) == roll < MinBetDollars * Unit

Ruined_strict(roll) == roll < 0

\* if bankroll <= 0: break
Ruined(roll) == roll <= 0

RangeExhausted_late(h, nh) == h > nh

\* for _ in range(num_hands): no hand is left after hand number nh
RangeExhausted(h, nh) == h >= nh

Max(a, b) == IF a >= b THEN a ELSE b

\* ---- the outcome probabilities, as exact fractions over 100 * tc.den ----
WinProb_uncapped(tc) ==
    [num |-> 48 * tc.den + Max(0, tc.num - tc.den),
     den |-> 100 * tc.den]

\* win_prob = 0.48 + min(0.01 * max(0, true_count - 1), 0.05)
WinProb(tc) ==
    [num |-> 48 * tc.den + Min(Max(0, tc.num - tc.den), 5 * tc.den),
     den |-> 100 * tc.den]

\* push_prob = 0.08
PushProb(tc) == [num |-> 8 * tc.den, den |-> 100 * tc.den]

\* lose_prob = 1 - win_prob - 0.08.  The sum of the three exact values is 1,
\* so the correction of lines 77-79 adds nothing here; what it does to the
\* doubles of the program is modelled by OddsDouble below.
LoseProb(tc) ==
    [num |-> 100 * tc.den - WinProb(tc).num - PushProb(tc).num,
     den |-> 100 * tc.den]

Outcomes == {"win", "lose", "push"}

\* p = [win_prob, lose_prob, push_prob]: the outcomes np.random.choice can return
Possible(wp, lp, pp) ==
    {oc \in Outcomes :
        \/ oc = "win" /\ wp.num > 0
        \/ oc = "lose" /\ lp.num > 0
        \/ oc = "push" /\ pp.num > 0}

\* ---- state ----
VARIABLES
    num_hands, num_decks, initial_bankroll, min_bet, spread,
    deck, running_count, bankroll, bankrolls,
    hand, true_count, bet, outcome, pc

\* the module-level list `cards`, which every run copies its shoe from
VARIABLE template

\* win_prob, lose_prob, push_prob of the round, and how the loop was left
\* ("break" or "exhausted")
VARIABLES win_prob, lose_prob, push_prob, exit

\* the script around the runs: num_simulations, the number of runs made,
\* all_results, how each of them left its loop, padded_results,
\* final_bankrolls and the number of rows counted by risk_of_ruin
VARIABLES num_simulations, sim, all_results, exits,
          padded_results, final_bankrolls, ruin_count

\* the doubles of lines 72-79 (OddsDouble)
VARIABLE fp

config == <<num_hands, num_decks, initial_bankroll, min_bet, spread>>
locals == <<true_count, bet, outcome>>
odds == <<win_prob, lose_prob, push_prob>>
script == <<num_simulations, sim, all_results, exits,
            padded_results, final_bankrolls, ruin_count>>
vars == <<num_hands, num_decks, initial_bankroll, min_bet, spread,
          deck, running_count, bankroll, bankrolls,
          hand, true_count, bet, outcome, pc,
          template, win_prob, lose_prob, push_prob, exit,
          num_simulations, sim, all_results, exits,
          padded_results, final_bankrolls, ruin_count, fp>>

Unbound == [num |-> 0, den |-> 1]

\* The script has made no run and computed nothing yet.
ScriptIdle ==
    /\ sim = 0
    /\ all_results = <<>>
    /\ exits = <<>>
    /\ padded_results = <<>>
    /\ final_bankrolls = <<>>
    /\ ruin_count = 0
    /\ fp = <<>>

\* The state on entry to the for loop.  The locals of the loop body are
\* unbound until their first assignment and are never read before it.
Init ==
    /\ num_hands \in NumHandsChoices
    /\ num_decks \in NumDecksChoices
    /\ initial_bankroll = InitialBankrollDollars * Unit
    /\ min_bet = MinBetDollars * Unit
    /\ spread \in Spreads
    /\ template = cards(num_decks)
    /\ deck = template
    /\ running_count = 0
    /\ bankroll = initial_bankroll
    /\ bankrolls = <<>>
    /\ hand = 0
    /\ true_count = [num |-> 0, den |-> 1]
    /\ bet = 0
    /\ outcome = "unbound"
    /\ win_prob = Unbound
    /\ lose_prob = Unbound
    /\ push_prob = Unbound
    /\ exit = "unbound"
    /\ num_simulations = 1
    /\ ScriptIdle
    /\ pc = "for"

Reshuffle_keeps_count ==
    /\ pc = "for"
    /\ ~RangeExhausted(hand, num_hands)
    /\ NeedsReshuffle(deck)
    /\ deck' = template
    /\ hand' = hand + 1
    /\ pc' = "draw"
    /\ UNCHANGED <<config, locals, running_count, bankroll, bankrolls>>
    /\ UNCHANGED <<template, odds, exit, script, fp>>

\* for _ in range(num_hands), another hand to play, len(deck) < 52
Reshuffle ==
    /\ pc = "for"
    /\ ~RangeExhausted(hand, num_hands)
    /\ NeedsReshuffle(deck)
    /\ deck' = template
    /\ running_count' = 0
    /\ hand' = hand + 1
    /\ pc' = "draw"
    /\ UNCHANGED <<config, locals, bankroll, bankrolls>>
    /\ UNCHANGED <<template, odds, exit, script, fp>>

\* for _ in range(num_hands), another hand to play, len(deck) >= 52
KeepShoe ==
    /\ pc = "for"
    /\ ~RangeExhausted(hand, num_hands)
    /\ ~NeedsReshuffle(deck)
    /\ hand' = hand + 1
    /\ pc' = "draw"
    /\ UNCHANGED <<config, locals, deck, running_count, bankroll, bankrolls>>
    /\ UNCHANGED <<template, odds, exit, script, fp>>

\* card = deck.pop(); running_count += card_values[card];
\* true_count = get_true_count(running_count, len(deck) / 52); the bet;
\* win_prob, lose_prob, push_prob.
\* Popping an empty list raises IndexError, which ends the run.
\* `card` is read only by the statement after the pop, so the drawn card is
\* the bound c of the step rather than a variable.
Deal ==
    /\ pc = "draw"
    /\ IF DeckLen(deck) = 0
       THEN /\ pc' = "raised"
            /\ UNCHANGED <<deck, running_count, true_count, bet, odds>>
       ELSE \E c \in {r \in Ranks : deck[r] > 0} :
            LET rc == running_count + card_values[c]
                tc == get_true_count(rc, [num |-> DeckLen(Pop(deck, c)), den |-> 52])
            IN  /\ deck' = Pop(deck, c)
                /\ running_count' = rc
                /\ true_count' = tc
                /\ bet' = BetSize(tc, bankroll, min_bet, spread)
                /\ win_prob' = WinProb(tc)
                /\ lose_prob' = LoseProb(tc)
                /\ push_prob' = PushProb(tc)
                /\ pc' = "outcome"
    /\ UNCHANGED <<config, bankroll, bankrolls, hand, outcome>>
    /\ UNCHANGED <<template, exit, script, fp>>

\* outcome = np.random.choice(...); the bankroll update; bankrolls.append(bankroll); if bankroll <= 0: break.
\* When the break is not taken and range(num_hands) is exhausted the loop
\* ends as well, and either way the function returns bankrolls.
Play ==
    /\ pc = "outcome"
    /\ \E oc \in Possible(win_prob, lose_prob, push_prob) :
        LET roll == Settle(bankroll, bet, oc)
        IN  /\ outcome' = oc
            /\ bankroll' = roll
            /\ bankrolls' = Append(bankrolls, roll)
            /\ pc' = IF Ruined(roll) \/ RangeExhausted(hand, num_hands) THEN "done" ELSE "for"
            /\ exit' = IF Ruined(roll) THEN "break"
                       ELSE IF RangeExhausted(hand, num_hands) THEN "exhausted"
                       ELSE exit
    /\ UNCHANGED <<config, deck, running_count, hand, true_count, bet>>
    /\ UNCHANGED <<template, odds, script, fp>>

Next ==
    \/ Reshuffle
    \/ KeepShoe
    \/ Deal
    \/ Play

Spec == Init /\ [][Next]_vars

\* ---- the script around the runs (lines 95-104) ----

\* max(len(r) for r in all_results)
MaxLength(results) ==
    CHOOSE m \in {Len(results[i]) : i \in 1..Len(results)} :
        \A i \in 1..Len(results) : Len(results[i]) <= m

PadRow_first(r, ml) == r \o [k \in 1..(ml - Len(r)) |-> r[1]]

\* r + [r[-1]] * (max_length - len(r))
PadRow(r, ml) == r \o [k \in 1..(ml - Len(r)) |-> r[Len(r)]]

\* array_results[:, -1]
LastColumn(rows) == [i \in 1..Len(rows) |-> rows[i][Len(rows[i])]]

\* the number of entries np.mean(final_bankrolls <= 0) counts
CountRuined(finals) == Cardinality({i \in 1..Len(finals) : finals[i] <= 0})

\* Before the first call of simulate_single_run there is no frame.
BatchInit ==
    /\ num_hands \in 1..MaxBatchHands
    /\ num_decks = 1
    /\ initial_bankroll = InitialBankrollDollars * Unit
    /\ min_bet = BatchMinBetDollars * Unit
    /\ spread \in Spreads
    /\ num_simulations \in 1..MaxSims
    /\ template = cards(num_decks)
    /\ deck = [r \in Ranks |-> 0]
    /\ running_count = 0
    /\ bankroll = 0
    /\ bankrolls = <<>>
    /\ hand = 0
    /\ true_count = Unbound
    /\ bet = 0
    /\ outcome = "unbound"
    /\ win_prob = Unbound
    /\ lose_prob = Unbound
    /\ push_prob = Unbound
    /\ exit = "unbound"
    /\ ScriptIdle
    /\ pc = "call"

Call_shared_shoe ==
    /\ pc = "call"
    /\ deck' = IF sim = 0 THEN template ELSE deck
    /\ running_count' = 0
    /\ bankroll' = initial_bankroll
    /\ bankrolls' = <<>>
    /\ hand' = 0
    /\ true_count' = Unbound
    /\ bet' = 0
    /\ outcome' = "unbound"
    /\ win_prob' = Unbound
    /\ lose_prob' = Unbound
    /\ push_prob' = Unbound
    /\ exit' = "unbound"
    /\ pc' = "for"
    /\ UNCHANGED <<config, template, script, fp>>

\* simulate_single_run() is called: a new frame, whatever the last one held.
\* deck = cards.copy(); random.shuffle(deck); running_count = 0;
\* bankroll = initial_bankroll; bankrolls = []
Call ==
    /\ pc = "call"
    /\ deck' = template
    /\ running_count' = 0
    /\ bankroll' = initial_bankroll
    /\ bankrolls' = <<>>
    /\ hand' = 0
    /\ true_count' = Unbound
    /\ bet' = 0
    /\ outcome' = "unbound"
    /\ win_prob' = Unbound
    /\ lose_prob' = Unbound
    /\ push_prob' = Unbound
    /\ exit' = "unbound"
    /\ pc' = "for"
    /\ UNCHANGED <<config, template, script, fp>>

\* The comprehension of line 95 receives the returned list (exits records
\* how the run left its loop) and goes on to the next run, if any.
Collect ==
    /\ pc = "done"
    /\ all_results' = Append(all_results, bankrolls)
    /\ exits' = Append(exits, exit)
    /\ sim' = sim + 1
    /\ pc' = IF sim + 1 < num_simulations THEN "call" ELSE "pad"
    /\ UNCHANGED <<config, template, locals, odds, exit, fp,
                   deck, running_count, bankroll, bankrolls, hand>>
    /\ UNCHANGED <<num_simulations, padded_results, final_bankrolls, ruin_count>>

\* max_length = ...; padded_results = [...]
Pad ==
    /\ pc = "pad"
    /\ padded_results' =
         [i \in 1..Len(all_results) |-> PadRow(all_results[i], MaxLength(all_results))]
    /\ pc' = "stats"
    /\ UNCHANGED <<config, template, locals, odds, exit, fp,
                   deck, running_count, bankroll, bankrolls, hand>>
    /\ UNCHANGED <<num_simulations, sim, all_results, exits, final_bankrolls, ruin_count>>

\* final_bankrolls = array_results[:, -1];
\* risk_of_ruin = np.mean(final_bankrolls <= 0) * 100, kept as the count
Summarise ==
    /\ pc = "stats"
    /\ final_bankrolls' = LastColumn(padded_results)
    /\ ruin_count' = CountRuined(LastColumn(padded_results))
    /\ pc' = "end"
    /\ UNCHANGED <<config, template, locals, odds, exit, fp,
                   deck, running_count, bankroll, bankrolls, hand>>
    /\ UNCHANGED <<num_simulations, sim, all_results, exits, padded_results>>

BatchNext ==
    \/ Call
    \/ Reshuffle
    \/ KeepShoe
    \/ Deal
    \/ Play
    \/ Collect
    \/ Pad
    \/ Summarise

BatchSpec == BatchInit /\ [][BatchNext]_vars

\* ---- the odds of lines 72-79 on their own ----

\* The true counts line 64 can hand to line 72: a running count of up to
\* MaxCount either way over 51 to MaxLeft cards left.
TrueCountInputs ==
    {get_true_count(rc, [num |-> n, den |-> 52]) :
        rc \in (-MaxCount)..MaxCount, n \in 51..MaxLeft}

\* A round after line 64, for any such true count; the rest of the frame
\* plays no part in lines 72-79.
OddsInit ==
    /\ num_hands = 1
    /\ num_decks = MaxDecks
    /\ initial_bankroll = InitialBankrollDollars * Unit
    /\ min_bet = MinBetDollars * Unit
    /\ spread = 1
    /\ num_simulations = 1
    /\ template = cards(num_decks)
    /\ deck = [r \in Ranks |-> 0]
    /\ running_count = 0
    /\ bankroll = initial_bankroll
    /\ bankrolls = <<>>
    /\ hand = 1
    /\ true_count \in TrueCountInputs
    /\ bet = 0
    /\ outcome = "unbound"
    /\ win_prob = Unbound
    /\ lose_prob = Unbound
    /\ push_prob = Unbound
    /\ exit = "unbound"
    /\ ScriptIdle
    /\ pc = "odds"

\* win_prob = ...; lose_prob = ...; push_prob = 0.08 (exact values)
Odds ==
    /\ pc = "odds"
    /\ win_prob' = WinProb(true_count)
    /\ lose_prob' = LoseProb(true_count)
    /\ push_prob' = PushProb(true_count)
    /\ pc' = "odds_done"
    /\ UNCHANGED <<config, template, locals, exit, script, fp,
                   deck, running_count, bankroll, bankrolls, hand>>

OddsSpec == OddsInit /\ [][Odds]_vars

\* ---- the same lines in the program's double arithmetic ----
\* A double is kept as the integer number of 2^-56 it equals, written
\* hi * 2^28 + lo with 0 <= lo < 2^28 (hi < 0 for a negative value), so that
\* no intermediate value leaves 32 bits.  Every double the lines below meet
\* is such a multiple.  A sum or difference is computed exactly and then
\* rounded to 53 significant bits, ties to even, as the hardware does.
Limb == Pow2(28)

XNorm(h, l) == [hi |-> h + (l \div Limb), lo |-> l % Limb]

XAdd(a, b) == XNorm(a.hi + b.hi, a.lo + b.lo)

XNeg(a) == XNorm(-a.hi, -a.lo)

\* the spacing of the doubles around a value of hi * 2^28 (at least 2^53 * g
\* units need a spacing above g)
RECURSIVE Grain(_, _)
Grain(h, g) == IF h >= Pow2(25) * g THEN Grain(h, 2 * g) ELSE g

RoundPos(a) ==
    LET g == Grain(a.hi, 1)
        r == a.lo % g
        down == a.lo - r
        up == 2 * r > g \/ (2 * r = g /\ (down \div g) % 2 = 1)
    IN  XNorm(a.hi, IF up THEN down + g ELSE down)

RoundDouble(a) == IF a.hi < 0 THEN XNeg(RoundPos(XNeg(a))) ELSE RoundPos(a)

\* x + y and x - y on doubles
FAdd(a, b) == RoundDouble(XAdd(a, b))

FSub(a, b) == RoundDouble(XAdd(a, XNeg(b)))

\* the literals 1 (1.0), 0.48, 0.08 and 0.0 as doubles
DoubleOne == [hi |-> 268435456, lo |-> 0]
Double048 == [hi |-> 128849018, lo |-> 236223200]
Double008 == [hi |-> 21474836, lo |-> 128849019]
DoubleZero == [hi |-> 0, lo |-> 0]

\* Lines 72-79 for a true count of at most 1, where max(0, true_count - 1)
\* is 0 and min(0.01 * 0, 0.05) is 0.0.  (Above 1 the lines multiply
\* doubles, which this representation does not cover.)
OddsDoubleValues ==
    LET win == FAdd(Double048, DoubleZero)
        lose0 == FSub(FSub(DoubleOne, win), Double008)
        push == Double008
        total0 == FAdd(FAdd(win, lose0), push)
        lose == IF total0 # DoubleOne
                THEN FAdd(lose0, FSub(DoubleOne, total0))
                ELSE lose0
    IN  [win |-> win, lose |-> lose, push |-> push,
         before |-> total0,
         total |-> FAdd(FAdd(win, lose), push),
         exact |-> XAdd(XAdd(win, lose), push)]

\* A round after line 64 whose true count is at most 1.
DoubleInit ==
    /\ OddsInit
    /\ true_count.num <= true_count.den

OddsDouble ==
    /\ pc = "odds"
    /\ true_count.num <= true_count.den
    /\ fp' = OddsDoubleValues
    /\ pc' = "odds_done"
    /\ UNCHANGED <<config, template, locals, odds, exit, script,
                   deck, running_count, bankroll, bankrolls, hand>>

DoubleSpec == DoubleInit /\ [][OddsDouble]_vars

\* ======================= properties =======================

Last(seq) == seq[Len(seq)]

\* C1: the trajectory returned by simulate_single_run is non-empty and its
\* length is at most num_hands (and the list never grows beyond num_hands
\* while the run is in progress).
C1_TrajectoryLength ==
    /\ Len(bankrolls) <= num_hands
    /\ pc = "done" => Len(bankrolls) >= 1

\* A run that played every permitted hand of a limit above one and returned.
C1_Witness ==
    /\ pc = "done"
    /\ num_hands > 1
    /\ Len(bankrolls) = num_hands
    /\ bankroll > 0

\* C2: ruin is terminal.  A value <= 0 appears in the trajectory only as its
\* last element (every non-final element is > 0), and once a value <= 0 has
\* been appended no step of the run changes anything any more.
C2_RuinIsTerminal ==
    /\ [](\A k \in 1..(Len(bankrolls) - 1) : bankrolls[k] > 0)
    /\ [][(bankrolls # <<>> /\ Last(bankrolls) <= 0) => UNCHANGED vars]_vars

\* A run ruined with hands to spare, stopped.
C2_Witness ==
    /\ pc = "done"
    /\ Len(bankrolls) >= 2
    /\ Last(bankrolls) <= 0
    /\ hand < num_hands

\* C3: the bet wagered in a round is never greater than the bankroll held at
\* the start of that round and never less than 0.  (At "outcome" the bet of
\* the round is fixed and the bankroll is still the one the round began with.)
C3_BetWithinBankroll ==
    pc = "outcome" => (0 <= bet /\ bet <= bankroll)

\* A round whose count-scaled bet would exceed the bankroll and is clamped to it.
C3_Witness ==
    /\ pc = "outcome"
    /\ true_count.num >= 2 * true_count.den
    /\ spread >= 2
    /\ bankroll < 2 * min_bet
    /\ bet = bankroll

\* C4 as stated: with spread = 1 the bet wagered in every round is exactly
\* min_bet, for every reachable bankroll and true count.
C4_Original ==
    (pc = "outcome" /\ spread = 1) => bet = min_bet

\* C4 amended: with spread = 1 the bet wagered in every round is
\* min(bankroll, min_bet) regardless of the true count: exactly min_bet when
\* the bankroll at the start of the round is at least min_bet, and the whole
\* bankroll when it is smaller.
C4_SpreadOneBet ==
    (pc = "outcome" /\ spread = 1) =>
        /\ bankroll >= min_bet => bet = min_bet
        /\ bankroll < min_bet => bet = bankroll

\* A round with spread 1 whose true count is at least 2: the cap holds the
\* bet at min_bet.
C4_Witness ==
    /\ pc = "outcome"
    /\ spread = 1
    /\ true_count.num >= 2 * true_count.den
    /\ bankroll >= min_bet
    /\ bet = min_bet

\* C5: a round that starts with fewer than 52 cards in the shoe replaces the
\* shoe by the full 52*num_decks-card multiset and sets running_count to 0
\* before its draw; a round that starts with 52 or more cards resets neither.
C5_ReshuffleBeforeDraw ==
    [][(pc = "for" /\ pc' = "draw") =>
         IF DeckLen(deck) < 52
         THEN /\ \A r \in Ranks : deck'[r] = 4 * num_decks
              /\ DeckLen(deck') = 52 * num_decks
              /\ running_count' = 0
         ELSE /\ deck' = deck
              /\ running_count' = running_count]_vars

\* A later round about to draw from a shoe refilled after a round that had
\* left a non-zero count.
C5_Witness ==
    /\ pc = "draw"
    /\ hand >= 2
    /\ true_count.num # 0
    /\ DeckLen(deck) = 52 * num_decks
    /\ running_count = 0

\* C6: a card is never drawn from an empty shoe.  At every draw the shoe
\* holds at least 52 and at most 52*num_decks cards, and in every state the
\* shoe is a sub-multiset of the full shoe (at most 4*num_decks per rank).
C6_ShoeBounds ==
    /\ pc # "raised"
    /\ pc = "draw" => (52 <= DeckLen(deck) /\ DeckLen(deck) <= 52 * num_decks)
    /\ \A r \in Ranks : 0 <= deck[r] /\ deck[r] <= 4 * num_decks
    /\ DeckLen(deck) <= 52 * num_decks

\* A single-deck run after the draw of a later round: 51 cards are left of a
\* shoe that was refilled before the draw.
C6_Witness ==
    /\ pc = "outcome"
    /\ num_decks = 1
    /\ hand >= 2
    /\ DeckLen(deck) = 51

\* The Hi-Lo value of a rank as the specification states it.
HiLoValue(r) ==
    IF r \in {"2", "3", "4", "5", "6"} THEN 1
    ELSE IF r \in {"7", "8", "9"} THEN 0
    ELSE -1

RECURSIVE DrawnValueUpTo(_, _, _)
DrawnValueUpTo(d, nd, k) ==
    IF k = 0 THEN 0
    ELSE (4 * nd - d[RankSeq[k]]) * HiLoValue(RankSeq[k]) + DrawnValueUpTo(d, nd, k - 1)

\* Sum of the Hi-Lo values of the cards missing from shoe d, that is, of the
\* cards drawn since the shoe was last full.
DrawnValue(d, nd) == DrawnValueUpTo(d, nd, Len(RankSeq))

\* C7: running_count equals the sum of the Hi-Lo values (+1 for 2-6, 0 for
\* 7-9, -1 for 10/J/Q/K/A) of exactly the cards drawn since the most recent
\* reshuffle (or the start of the run), and each draw changes it by exactly
\* the drawn rank's value.
C7_RunningCount ==
    /\ [](running_count = DrawnValue(deck, num_decks))
    /\ [][(pc = "draw" /\ pc' = "outcome") =>
            \E r \in Ranks :
                /\ deck' = [deck EXCEPT ![r] = @ - 1]
                /\ running_count' = running_count + HiLoValue(r)]_vars

\* After three rounds without reshuffle that drew a '7', a '2' and a 'K'.
C7_Witness ==
    /\ pc = "for"
    /\ hand = 3
    /\ num_decks = 2
    /\ deck["7"] = 7
    /\ deck["2"] = 7
    /\ deck["K"] = 7
    /\ running_count = 0

\* C8: the true count used in a round equals
\* running_count / (cards_remaining / 52), with running_count including the
\* card drawn in that round and cards_remaining the shoe size after that
\* draw (stated by cross-multiplication); get_true_count returns 0 instead
\* of dividing when the remaining amount is 0 or negative.
C8_TrueCount ==
    /\ pc = "outcome" =>
        /\ true_count.den > 0
        /\ DeckLen(deck) > 0
        /\ true_count.num * DeckLen(deck) = running_count * 52 * true_count.den
    /\ \A rc \in -3..3 : \A n \in -1..0 :
        get_true_count(rc, [num |-> n, den |-> 52]).num = 0

\* A round of a two-deck run whose first four cards were all low: the count
\* is 4 over 100 cards, a true count of 2.08.
C8_Witness ==
    /\ pc = "outcome"
    /\ running_count = 4
    /\ DeckLen(deck) = 100
    /\ true_count.num * 100 = 4 * 52 * true_count.den
    /\ IntTrunc(true_count) = 2

\* C9: a round changes the bankroll by +1.5 * bet on win, by -bet on lose
\* and not at all on push; the value appended to the trajectory is the
\* bankroll after this update, so the first element is the initial bankroll
\* with exactly one round's outcome applied.
C9_RoundPayout ==
    /\ [][(pc = "outcome" /\ pc' # "outcome") =>
            /\ outcome' \in {"win", "lose", "push"}
            /\ outcome' = "win" => 2 * (bankroll' - bankroll) = 3 * bet
            /\ outcome' = "lose" => bankroll' = bankroll - bet
            /\ outcome' = "push" => bankroll' = bankroll
            /\ bankrolls' = bankrolls \o <<bankroll'>>]_vars
    /\ [](bankrolls # <<>> =>
            \/ 2 * (bankrolls[1] - initial_bankroll) = 3 * min_bet
            \/ bankrolls[1] = initial_bankroll - min_bet
            \/ bankrolls[1] = initial_bankroll)

\* The first round of a run was won: the one recorded value is the initial
\* bankroll plus one and a half bets.
C9_Witness ==
    /\ Len(bankrolls) = 1
    /\ outcome = "win"
    /\ bet = min_bet
    /\ 2 * (bankrolls[1] - initial_bankroll) = 3 * bet
    /\ bankroll = bankrolls[1]

\* C10 as stated: a run that stops because the bankroll reached <= 0 returns
\* a trajectory shorter than num_hands.
C10_Original ==
    (pc = "done" /\ bankroll <= 0) => Len(bankrolls) < num_hands

\* C10 amended: a run that stops because the bankroll reached <= 0 returns a
\* trajectory no longer than num_hands, and shorter than num_hands exactly
\* when the ruin occurred before the last permitted hand; a run ruined on
\* hand number num_hands returns a trajectory of length exactly num_hands.
C10_RuinedLength ==
    (pc = "done" /\ bankroll <= 0) =>
        /\ Len(bankrolls) <= num_hands
        /\ Len(bankrolls) < num_hands <=> hand < num_hands
        /\ Last(bankrolls) = bankroll

\* A run ruined on its last permitted hand.
C10_Witness ==
    /\ pc = "done"
    /\ bankroll <= 0
    /\ hand = num_hands
    /\ Len(bankrolls) = num_hands

\* An upper bound on the steps a run can still take: three per round not yet
\* begun, two when the round is about to draw, one when it is about to play.
StepsLeft ==
    IF pc = "for" THEN 3 * (num_hands - hand)
    ELSE IF pc = "draw" THEN 3 * (num_hands - hand) + 2
    ELSE IF pc = "outcome" THEN 3 * (num_hands - hand) + 1
    ELSE 0

\* The run has a step to take: the condition under which one of Reshuffle,
\* KeepShoe, Deal and Play is enabled.
NotStuck ==
    \/ pc = "for" /\ hand < num_hands
    \/ pc = "draw"
    \/ pc = "outcome" /\ (win_prob.num > 0 \/ lose_prob.num > 0 \/ push_prob.num > 0)

\* C11: every run terminates after at most num_hands rounds in exactly one
\* of two terminal states: Ruined (the break was taken, last recorded
\* bankroll <= 0) or Completed (the range was exhausted, exactly num_hands
\* rounds played and last recorded bankroll > 0); no run stays in Playing
\* forever and none stops early with a positive bankroll.  Termination is
\* stated by a variant: a run that has not returned can always take a step
\* (NotStuck), and every step lowers StepsLeft, which starts at 3 * num_hands.
C11_Termination ==
    /\ [](pc # "done" => NotStuck)
    /\ [](StepsLeft >= 0 /\ StepsLeft <= 3 * num_hands)
    /\ [][StepsLeft' < StepsLeft]_vars
    /\ [](hand <= num_hands)
    /\ [](pc = "done" =>
            \/ /\ exit = "break"
               /\ Last(bankrolls) <= 0
            \/ /\ exit = "exhausted"
               /\ hand = num_hands
               /\ Len(bankrolls) = num_hands
               /\ Last(bankrolls) > 0)
    /\ [](pc # "done" => exit = "unbound")

\* A run of more than one hand that played all of them and was completed with
\* less money than it started with.
C11_Witness ==
    /\ pc = "done"
    /\ exit = "exhausted"
    /\ num_hands >= 2
    /\ Len(bankrolls) = num_hands
    /\ bankroll > 0
    /\ bankroll < min_bet

\* C12: padding yields a rectangular matrix.  Every padded row has the
\* maximum trajectory length of the batch, its prefix is the original
\* trajectory element for element, every appended element equals that
\* trajectory's own last value, and a trajectory already of maximum length
\* is unchanged.
C12_Padding ==
    pc \in {"stats", "end"} =>
        /\ Len(padded_results) = Len(all_results)
        /\ \E j \in 1..Len(all_results) :
            \A i \in 1..Len(all_results) :
                /\ Len(all_results[i]) <= Len(all_results[j])
                /\ Len(padded_results[i]) = Len(all_results[j])
        /\ \A i \in 1..Len(all_results) :
            /\ \A k \in 1..Len(all_results[i]) :
                padded_results[i][k] = all_results[i][k]
            /\ \A k \in (Len(all_results[i]) + 1)..Len(padded_results[i]) :
                padded_results[i][k] = Last(all_results[i])
            /\ Len(all_results[i]) = Len(padded_results[i]) =>
                padded_results[i] = all_results[i]

\* A padded batch of two runs: one row grew by padding, the other was
\* already of maximum length.
C12_Witness ==
    /\ pc = "end"
    /\ Len(all_results) = 2
    /\ Len(all_results[1]) < Len(padded_results[1])
    /\ Len(all_results[2]) = Len(padded_results[2])

\* C13: the risk-of-ruin figure counts exactly the runs that ended by ruin.
\* A row's last padded value is <= 0 if and only if that run left its loop
\* by the break (state Ruined), whether it was ruined on the last permitted
\* hand or ruined early and then padded.
C13_RiskOfRuin ==
    pc = "end" =>
        /\ Len(final_bankrolls) = num_simulations
        /\ Len(exits) = num_simulations
        /\ \A i \in 1..num_simulations :
            final_bankrolls[i] <= 0 <=> exits[i] = "break"
        /\ ruin_count = Cardinality({i \in 1..num_simulations : exits[i] = "break"})

\* A batch with a run ruined early and padded, and a run ruined on the last
\* permitted hand.
C13_Witness ==
    /\ pc = "end"
    /\ num_simulations = 2
    /\ num_hands >= 3
    /\ Len(all_results[1]) < num_hands
    /\ Len(all_results[2]) = num_hands
    /\ exits = <<"break", "break">>
    /\ ruin_count = 2

\* C16: runs are independent.  No step changes the template shoe `cards` or
\* a configuration value, and every run of a batch, whatever the earlier
\* runs did, starts from a full 52*num_decks-card shoe, running_count 0,
\* bankroll = initial_bankroll and an empty trajectory.
C16_IndependentRuns ==
    /\ [][/\ template' = template
          /\ config' = config
          /\ num_simulations' = num_simulations]_vars
    /\ [](\A r \in Ranks : template[r] = 4 * num_decks)
    /\ []((pc = "for" /\ hand = 0) =>
            /\ \A r \in Ranks : deck[r] = 4 * num_decks
            /\ DeckLen(deck) = 52 * num_decks
            /\ running_count = 0
            /\ bankroll = initial_bankroll
            /\ bankrolls = <<>>)

\* The second run of a batch is about to start after a first run that was
\* ruined.
C16_Witness ==
    /\ pc = "for"
    /\ hand = 0
    /\ sim = 1
    /\ exits = <<"break">>
    /\ Last(all_results[1]) <= 0

\* C14: the win probability of a round is
\* 0.48 + min(0.01 * max(0, true_count - 1), 0.05): 0.48 for every
\* true_count <= 1, 0.48 + 0.01 * (true_count - 1) between 1 and 6,
\* non-decreasing in true_count, and never above 0.53, which it reaches for
\* every true_count >= 6.  (Fractions are compared by cross-multiplication.)
C14_WinProbability ==
    pc = "odds_done" =>
        LET t == true_count
            w == win_prob
        IN  /\ w.den > 0
            /\ 48 * w.den <= 100 * w.num
            /\ 100 * w.num <= 53 * w.den
            /\ t.num <= t.den => 100 * w.num = 48 * w.den
            /\ t.num >= 6 * t.den => 100 * w.num = 53 * w.den
            /\ (t.den < t.num /\ t.num < 6 * t.den) =>
                    100 * w.num * t.den = w.den * (47 * t.den + t.num)
            /\ \A u \in TrueCountInputs :
                    t.num * u.den <= u.num * t.den =>
                        w.num * WinProb(u).den <= WinProb(u).num * w.den

\* The odds of a true count strictly between 1 and 6: a win probability
\* strictly between 0.48 and 0.53.
C14_Witness ==
    /\ pc = "odds_done"
    /\ true_count.num > true_count.den
    /\ true_count.num < 6 * true_count.den
    /\ 100 * win_prob.num > 48 * win_prob.den
    /\ 100 * win_prob.num < 53 * win_prob.den

\* C15: for any true_count the win, lose and push probabilities passed to
\* the sampler sum to exactly 1.0 after the corrective step, whether the sum
\* is taken in doubles as line 77 takes it or as the exact sum of the three
\* doubles.
C15_SumIsOne ==
    pc = "odds_done" => (fp.total = DoubleOne \/ fp.exact = DoubleOne)

\* C17: the bet of a round equals min(bankroll, min_bet * m), where
\* m = min(spread, trunc(true_count)) if true_count > 1 and m = 1 otherwise;
\* a true count in (1, 2) gives multiplier 1, and the bet never exceeds
\* min_bet * spread.
C17_BetFormula ==
    pc = "outcome" =>
        LET t == true_count
            trunc == t.num \div t.den
            m == IF t.num > t.den
                 THEN (IF spread <= trunc THEN spread ELSE trunc)
                 ELSE 1
        IN  /\ bet = (IF bankroll <= min_bet * m THEN bankroll ELSE min_bet * m)
            /\ (t.den < t.num /\ t.num < 2 * t.den) => m = 1
            /\ bet <= min_bet * spread

\* A round with spread 2, a true count of at least 2 and money enough: the
\* bet is twice min_bet.
C17_Witness ==
    /\ pc = "outcome"
    /\ spread = 2
    /\ true_count.num >= 2 * true_count.den
    /\ bankroll >= 2 * min_bet
    /\ bet = 2 * min_bet

\* C18: the bankroll never becomes negative.  It is > 0 at the start of
\* every round played, so every bet is strictly positive; every recorded
\* value is >= 0; and a ruined run ends at exactly 0.
C18_NeverNegative ==
    /\ bankroll >= 0
    /\ pc \in {"for", "draw", "outcome"} => bankroll > 0
    /\ pc = "outcome" => bet > 0
    /\ \A k \in 1..Len(bankrolls) : bankrolls[k] >= 0
    /\ (pc = "done" /\ exit = "break") => (bankroll = 0 /\ Last(bankrolls) = 0)

\* A run ruined by losing a bet that had been clamped to a bankroll below
\* min_bet.
C18_Witness ==
    /\ pc = "done"
    /\ exit = "break"
    /\ outcome = "lose"
    /\ bet < min_bet
    /\ Last(bankrolls) = 0

RECURSIVE ShoeValueUpTo(_, _)
ShoeValueUpTo(d, k) ==
    IF k = 0 THEN 0
    ELSE d[RankSeq[k]] * HiLoValue(RankSeq[k]) + ShoeValueUpTo(d, k - 1)

\* Sum of the Hi-Lo values of the cards still in shoe d.
ShoeValue(d) == ShoeValueUpTo(d, Len(RankSeq))

\* C19: the count is balanced against the shoe.  running_count plus the sum
\* of the Hi-Lo values of the cards still in the shoe is 0, so
\* |running_count| <= 20 * num_decks.
C19_BalancedCount ==
    /\ running_count + ShoeValue(deck) = 0
    /\ running_count <= 20 * num_decks
    /\ running_count >= -(20 * num_decks)

\* Three high cards were drawn from a two-deck shoe: the count is -3 and the
\* shoe holds +3.
C19_Witness ==
    /\ pc = "for"
    /\ hand = 3
    /\ running_count = -3
    /\ ShoeValue(deck) = 3

\* C20: with num_decks = 1 the shoe is reshuffled before every draw except
\* the first of a run, so running_count is always in {-1, 0, 1}, the
\* truncated true count never exceeds 1 (true_count < 2) and the bet is
\* never larger than min_bet, whatever the spread.
C20_SingleDeck ==
    /\ [](num_decks = 1 =>
            /\ running_count \in {-1, 0, 1}
            /\ true_count.num < 2 * true_count.den
            /\ bet <= min_bet)
    /\ [][(num_decks = 1 /\ pc = "for" /\ pc' = "draw") =>
            IF hand = 0
            THEN DeckLen(deck) = 52 /\ deck' = deck
            ELSE /\ DeckLen(deck) = 51
                 /\ DeckLen(deck') = 52
                 /\ running_count' = 0]_vars

\* A later round of a single-deck run with spread 2 and a true count above 1
\* (52/51): the bet is min_bet although the bankroll would cover twice that.
C20_Witness ==
    /\ pc = "outcome"
    /\ num_decks = 1
    /\ spread = 2
    /\ hand >= 2
    /\ true_count.num > true_count.den
    /\ bankroll >= 2 * min_bet
    /\ bet = min_bet

====
